---- MODULE Spec2Model ----
(***************************************************************************)
(* Event-driven backtester: the Backtest dispatch loop and its parameter   *)
(* sweep (parameters_optimisation_intraday_mean_reverting_pairs.py) over   *)
(* the historic data feed (automated_trading_event.py).                    *)
(*                                                                         *)
(* The model starts from a constructed Backtest whose fields are the ones  *)
(* Backtest.__init__ assigns (one queue, three zero counters) and whose    *)
(* strat_params_list is the grid __main__ builds.  Each method is modelled *)
(* with the block structure its indentation gives it in the source.        *)
(* Strategy, Portfolio and ExecutionHandler are imported from modules that *)
(* are not part of the source tree; they are deterministic stubs that      *)
(* follow the collaborator contracts.                                      *)
(***************************************************************************)
EXTENDS Integers, Sequences, FiniteSets, TLC

VARIABLES
  strat_lookback,      \* the three declared parameter ranges
  strat_z_entry,
  strat_z_exit,
  strat_params_list,   \* Backtest.strat_params_list
  symbol_list,         \* Backtest.symbol_list
  calendar,            \* comb_index: the rows every symbol is reindexed onto
  sigPlan,             \* stub strategy: signals per Market event, by ols_window
  ordPlan,             \* stub portfolio: orders per Signal event
  pc,                  \* position of the program inside simulate_trading
  calls,               \* number of simulate_trading invocations so far
  sweep_i,             \* enumerate index of simulate_trading's for loop
  out,                 \* rows written to output/opt.csv
  i,                   \* _run_backtest's loop counter
  events,              \* Backtest.events, the queue
  signals,             \* Backtest.signals
  orders,              \* Backtest.orders
  fills,               \* Backtest.fills
  symbol_data,         \* data_handler.symbol_data: per-symbol row iterator
  latest_symbol_data,  \* data_handler.latest_symbol_data
  continue_backtest,   \* data_handler.continue_backtest
  strategy,            \* the Strategy instance
  portfolio,           \* the Portfolio instance
  run,                 \* history: number of runs started
  pushed,              \* history: every event ever put on the queue
  dispatched,          \* history: ids of the events dispatched, in order
  call_log,            \* history: collaborator calls made by the loop
  runs,                \* history: one record per finished run
  artifact,            \* the rows of output/opt.csv that have reached the file
  native,              \* per symbol, the timestamps of its CSV rows, sorted
  result               \* the last direct call of a constructor or feed query

vars == <<strat_lookback, strat_z_entry, strat_z_exit, strat_params_list,
          symbol_list, calendar, sigPlan, ordPlan, pc, calls, sweep_i, out, i,
          events, signals, orders, fills, symbol_data, latest_symbol_data,
          continue_backtest, strategy, portfolio, run, pushed, dispatched,
          call_log, runs, artifact, native, result>>

---------------------------------------------------------------------------
(* Bounds *)

MaxSym == 2
MaxCal == 2
MaxSig == 2
MaxOrd == 1
MaxCalls == 2

---------------------------------------------------------------------------
(* The parameter grid of __main__ (z-scores in tenths) *)

StratLookback == <<50, 100, 200>>
StratZEntry == <<20, 30, 40>>
StratZExit == <<5, 10, 15>>

GridShapes == {<<3, 3, 3>>, <<1, 1, 1>>, <<2, 1, 2>>, <<0, 1, 1>>}

Prefix(s, n) == SubSeq(s, 1, n)

RECURSIVE product(_)
product(ranges) ==
  IF ranges = <<>> THEN << <<>> >>
  ELSE LET rest == product(Tail(ranges))
           RECURSIVE Outer(_)
           Outer(k) ==
             IF k > Len(Head(ranges)) THEN <<>>
             ELSE [j \in 1..Len(rest) |-> <<Head(ranges)[k]>> \o rest[j]]
                  \o Outer(k + 1)
       IN Outer(1)

StratParamsDict(sp) ==
  [ols_window |-> sp[1], zscore_high |-> sp[2], zscore_low |-> sp[3]]

StratParamsDictList(l, e, x) ==
  LET strat_params == product(<<l, e, x>>)
  IN [k \in 1..Len(strat_params) |-> StratParamsDict(strat_params[k])]

---------------------------------------------------------------------------
(* Events and the queue *)

\* MarketEvent(), SignalEvent(...), OrderEvent(...), FillEvent(...): the type
\* tag, plus the history fields id (push order), parent (the event whose
\* dispatch pushed it, 0 for the feed), tick (the update_bars call it descends from), run.
Event(type, id, parent, tick, r) ==
  [type |-> type, id |-> id, parent |-> parent, tick |-> tick, run |-> r]

\* queue.Queue.put: append at the tail
QueuePut(q, e) == Append(q, e)

QueueGetLifo(q) == [event |-> q[Len(q)], rest |-> SubSeq(q, 1, Len(q) - 1)]

\* queue.Queue.get(False) on a non-empty queue: remove the head
QueueGet(q) == [event |-> Head(q), rest |-> Tail(q)]

\* The queue and the push history after n events of one type are put
RECURSIVE PutMany(_, _, _, _, _, _)
PutMany(st, n, type, parent, tick, r) ==
  IF n = 0 THEN st
  ELSE LET e == Event(type, Len(st.pushed) + 1, parent, tick, r)
       IN PutMany([st EXCEPT !.events = QueuePut(@, e),
                             !.pushed = Append(@, e)],
                  n - 1, type, parent, tick, r)

---------------------------------------------------------------------------
(* HistoricCSVDataHandler *)

HasNextEarly(it) == Len(it) > 1

\* next(self._get_new_bar(s)) raises StopIteration iff the row iterator of the
\* symbol is used up
HasNext(it) == Len(it) > 0

RECURSIVE update_bars_rewrite(_, _, _, _)
update_bars_rewrite(st, k, tick, r) ==
  IF k > Len(symbol_list) THEN st
  ELSE LET s == symbol_list[k]
       IN IF ~HasNext(st.symbol_data[s])
          THEN update_bars_rewrite([st EXCEPT !.continue_backtest = FALSE],
                                   k + 1, tick, r)
          ELSE LET bar == Head(st.symbol_data[s])
                   st1 == [st EXCEPT
                             !.symbol_data[s] = Tail(@),
                             !.latest_symbol_data[s] = <<bar>>]
               IN update_bars_rewrite(PutMany(st1, 1, "MARKET", 0, tick, r),
                                      k + 1, tick, r)

\* update_bars: the body of `for s in self.symbol_list`, from symbol k on.
\* st = [symbol_data, latest_symbol_data, continue_backtest, events, pushed]
RECURSIVE update_bars(_, _, _, _)
update_bars(st, k, tick, r) ==
  IF k > Len(symbol_list) THEN st
  ELSE LET s == symbol_list[k]
       IN IF ~HasNext(st.symbol_data[s])
          THEN update_bars([st EXCEPT !.continue_backtest = FALSE],
                           k + 1, tick, r)
          ELSE LET bar == Head(st.symbol_data[s])
                   st1 == [st EXCEPT
                             !.symbol_data[s] = Tail(@),
                             !.latest_symbol_data[s] = Append(@, bar)]
               IN update_bars(PutMany(st1, 1, "MARKET", 0, tick, r),
                              k + 1, tick, r)

---------------------------------------------------------------------------
(* Collaborators: stubs honouring the contracts of Strategy, Portfolio and *)
(* ExecutionHandler                                                        *)

\* Strategy.calculate_signals: pushes zero or more Signal events
calculate_signals(st, e) ==
  PutMany(st, sigPlan[st.strategy.ols_window], "SIGNAL", e.id, e.tick, e.run)

\* Portfolio.update_timeindex
update_timeindex(st, e) ==
  [st EXCEPT !.portfolio.timeindex = @ + 1]

\* Portfolio.update_signal: pushes zero or more Order events
update_signal(st, e) ==
  PutMany(st, ordPlan, "ORDER", e.id, e.tick, e.run)

\* ExecutionHandler.execute_order: pushes exactly one Fill event
execute_order(st, e) ==
  PutMany(st, 1, "FILL", e.id, e.tick, e.run)

\* Portfolio.update_fill
update_fill(st, e) ==
  [st EXCEPT !.portfolio.fills = @ + 1]

Invoke(fn, st, e) ==
  LET st1 == CASE fn = "calculate_signals" -> calculate_signals(st, e)
               [] fn = "update_timeindex" -> update_timeindex(st, e)
               [] fn = "update_signal" -> update_signal(st, e)
               [] fn = "execute_order" -> execute_order(st, e)
               [] fn = "update_fill" -> update_fill(st, e)
  IN [st1 EXCEPT !.call_log = Append(@, [fn |-> fn, ev |-> e.id])]

\* Portfolio.output_summary_stats: the five statistics, from the terminal
\* portfolio state
output_summary_stats(p) ==
  <<p.fills, p.timeindex, p.fills + p.timeindex, 0, 0>>

---------------------------------------------------------------------------
(* Backtest *)

SymbolNames == <<"AAPL", "MSFT", "GOOG">>

Range(f) == {f[k] : k \in DOMAIN f}

None == <<>>
Some(v) == <<v>>

\* The mutable state the feed and the collaborators work on
Cur ==
  [symbol_data |-> symbol_data, latest_symbol_data |-> latest_symbol_data,
   continue_backtest |-> continue_backtest, events |-> events,
   pushed |-> pushed, strategy |-> strategy, portfolio |-> portfolio,
   call_log |-> call_log]

Store(st) ==
  /\ symbol_data' = st.symbol_data
  /\ latest_symbol_data' = st.latest_symbol_data
  /\ continue_backtest' = st.continue_backtest
  /\ events' = st.events
  /\ pushed' = st.pushed
  /\ strategy' = st.strategy
  /\ portfolio' = st.portfolio
  /\ call_log' = st.call_log

\* Backtest.__init__: the queue and the counters are created here, once
Init ==
  /\ \E shape \in GridShapes :
       /\ strat_lookback = Prefix(StratLookback, shape[1])
       /\ strat_z_entry = Prefix(StratZEntry, shape[2])
       /\ strat_z_exit = Prefix(StratZExit, shape[3])
  /\ strat_params_list =
       StratParamsDictList(strat_lookback, strat_z_entry, strat_z_exit)
  /\ \E n \in 1..MaxSym : symbol_list = Prefix(SymbolNames, n)
  /\ \E L \in 0..MaxCal : calendar = [t \in 1..L |-> t]
  /\ sigPlan \in [Range(strat_lookback) -> 0..MaxSig]
  /\ ordPlan \in 0..MaxOrd
  /\ pc = "constructed"
  /\ calls = 0
  /\ sweep_i = 0
  /\ out = <<>>
  /\ i = 0
  /\ events = <<>>
  /\ signals = 0
  /\ orders = 0
  /\ fills = 0
  /\ symbol_data = [s \in Range(symbol_list) |-> <<>>]
  /\ latest_symbol_data = [s \in Range(symbol_list) |-> <<>>]
  /\ continue_backtest = TRUE
  /\ strategy = [ols_window |-> 0, zscore_high |-> 0, zscore_low |-> 0]
  /\ portfolio = [timeindex |-> 0, fills |-> 0]
  /\ run = 0
  /\ pushed = <<>>
  /\ dispatched = <<>>
  /\ call_log = <<>>
  /\ runs = <<>>
  /\ artifact = <<>>
  /\ native = [s \in Range(symbol_list) |-> calendar]
  /\ result = [op |-> "none"]

\* One turn of `for i, sp in enumerate(self.strat_params_list)` from index k:
\* _generate_trading_instances(sp) builds a new data handler, strategy,
\* portfolio and execution handler around self.events and enters
\* _run_backtest; past the end of the list, out.close().  Rows written with
\* out.write stay in the file object's buffer (none of the grids fills it)
\* until close; k = 1 follows open(..., "w"), which truncates the file.
EnterLoop(k) ==
  IF k > Len(strat_params_list)
  THEN /\ pc' = "returned"
       /\ artifact' = out'
       /\ UNCHANGED <<sweep_i, i, symbol_data, latest_symbol_data,
                      continue_backtest, strategy, portfolio, run>>
  ELSE LET sp == strat_params_list[k]
       IN /\ pc' = "advance"
          /\ sweep_i' = k
          /\ i' = 0
          /\ symbol_data' = [s \in Range(symbol_list) |-> calendar]
          /\ latest_symbol_data' = [s \in Range(symbol_list) |-> <<>>]
          /\ continue_backtest' = TRUE
          /\ strategy' = sp
          /\ portfolio' = [timeindex |-> 0, fills |-> 0]
          /\ run' = run + 1
          /\ artifact' = IF k = 1 THEN <<>> ELSE artifact

\* simulate_trading is called: open("output/opt.csv", "w"), first loop turn
SimulateTrading ==
  /\ pc \in {"constructed", "raised", "returned"}
  /\ calls < MaxCalls
  /\ calls' = calls + 1
  /\ out' = <<>>
  /\ EnterLoop(1)
  /\ UNCHANGED <<strat_lookback, strat_z_entry, strat_z_exit,
                 strat_params_list, symbol_list, calendar, sigPlan, ordPlan,
                 events, signals, orders, fills, pushed, dispatched,
                 call_log, runs, native, result>>

\* _run_backtest, first `while True`: one iteration
Advance ==
  /\ pc = "advance"
  /\ i' = i + 1
  /\ IF continue_backtest = TRUE
     THEN /\ Store(update_bars(Cur, 1, i + 1, run))
          /\ pc' = pc
     ELSE /\ pc' = "drain"
          /\ UNCHANGED <<symbol_data, latest_symbol_data, continue_backtest,
                         events, pushed, strategy, portfolio, call_log>>
  /\ UNCHANGED <<strat_lookback, strat_z_entry, strat_z_exit,
                 strat_params_list, symbol_list, calendar, sigPlan, ordPlan,
                 calls, sweep_i, out, signals, orders, fills, run,
                 dispatched, runs, artifact, native, result>>

HandlerCallsSwapped(type) ==
  CASE type = "MARKET" -> <<"update_timeindex", "calculate_signals">>
    [] type = "SIGNAL" -> <<"update_signal">>
    [] type = "ORDER" -> <<"execute_order">>
    [] type = "FILL" -> <<"update_fill">>

HandlerCallsNoExecute(type) ==
  CASE type = "MARKET" -> <<"calculate_signals", "update_timeindex">>
    [] type = "SIGNAL" -> <<"update_signal">>
    [] type = "ORDER" -> <<>>
    [] type = "FILL" -> <<"update_fill">>

\* The collaborator calls of each branch of the `if event.type == ...` chain
HandlerCalls(type) ==
  CASE type = "MARKET" -> <<"calculate_signals", "update_timeindex">>
    [] type = "SIGNAL" -> <<"update_signal">>
    [] type = "ORDER" -> <<"execute_order">>
    [] type = "FILL" -> <<"update_fill">>

RECURSIVE InvokeAll(_, _, _)
InvokeAll(fns, st, e) ==
  IF fns = <<>> THEN st
  ELSE InvokeAll(Tail(fns), Invoke(Head(fns), st, e), e)

\* _run_backtest, second `while True`: one iteration that gets an event of
\* the given type and routes it
Dispatch(type) ==
  /\ pc = "drain"
  /\ events # <<>>
  /\ LET got == QueueGet(events)
         event == got.event
     IN /\ event.type = type
        /\ signals' = IF type = "SIGNAL" THEN signals + 1 ELSE signals
        /\ orders' = IF type = "ORDER" THEN orders + 1 ELSE orders
        /\ fills' = IF type = "FILL" THEN fills + 1 ELSE fills
        /\ Store(InvokeAll(HandlerCalls(type),
                           [Cur EXCEPT !.events = got.rest], event))
        /\ dispatched' = Append(dispatched, event.id)
  /\ UNCHANGED <<strat_lookback, strat_z_entry, strat_z_exit,
                 strat_params_list, symbol_list, calendar, sigPlan, ordPlan,
                 pc, calls, sweep_i, out, i, run, runs, artifact, native,
                 result>>

DispatchMarket == Dispatch("MARKET")

DispatchSignal == Dispatch("SIGNAL")

DispatchOrder == Dispatch("ORDER")

DispatchFill == Dispatch("FILL")

DrainEarly ==
  /\ pc = "drain"
  /\ Len(events) <= 1
  /\ pc' = "ran"
  /\ runs' = Append(runs, [params |-> strategy, signals |-> signals,
                           orders |-> orders, fills |-> fills,
                           stats |-> output_summary_stats(portfolio)])
  /\ UNCHANGED <<strat_lookback, strat_z_entry, strat_z_exit,
                 strat_params_list, symbol_list, calendar, sigPlan, ordPlan,
                 calls, sweep_i, out, i, events, signals, orders, fills,
                 symbol_data, latest_symbol_data, continue_backtest, strategy,
                 portfolio, run, pushed, dispatched, call_log, artifact,
                 native, result>>

\* queue.Empty: break, time.sleep(self.heartbeat), _run_backtest returns
DrainEmpty ==
  /\ pc = "drain"
  /\ events = <<>>
  /\ pc' = "ran"
  /\ runs' = Append(runs, [params |-> strategy, signals |-> signals,
                           orders |-> orders, fills |-> fills,
                           stats |-> output_summary_stats(portfolio)])
  /\ UNCHANGED <<strat_lookback, strat_z_entry, strat_z_exit,
                 strat_params_list, symbol_list, calendar, sigPlan, ordPlan,
                 calls, sweep_i, out, i, events, signals, orders, fills,
                 symbol_data, latest_symbol_data, continue_backtest, strategy,
                 portfolio, run, pushed, dispatched, call_log, artifact,
                 native, result>>

\* _output_performance as it would be with `return stats`
output_performance_returning(p) == Some(output_summary_stats(p))

\* _output_performance: prints the statistics and has no return statement
output_performance(p) == None

\* The row simulate_trading writes for configuration sp
Row(sp, stats) ==
  <<sp.ols_window, sp.zscore_high, sp.zscore_low,
    stats[1], stats[2], stats[3], stats[4], stats[5]>>

\* simulate_trading after _run_backtest: stats = self._output_performance(),
\* stats[0][1] ... stats[4][1], out.write(row), next loop turn
OutputRow ==
  /\ pc = "ran"
  /\ LET stats == output_performance(portfolio)
     IN IF stats = None
        THEN /\ pc' = "raised"
             /\ UNCHANGED <<out, sweep_i, i, symbol_data, latest_symbol_data,
                            continue_backtest, strategy, portfolio, run,
                            artifact>>
        ELSE /\ out' = Append(out, Row(strat_params_list[sweep_i], stats[1]))
             /\ EnterLoop(sweep_i + 1)
  /\ UNCHANGED <<strat_lookback, strat_z_entry, strat_z_exit,
                 strat_params_list, symbol_list, calendar, sigPlan, ordPlan,
                 calls, events, signals, orders, fills, pushed, dispatched,
                 call_log, runs, native, result>>

Next ==
  \/ SimulateTrading
  \/ Advance
  \/ DispatchMarket
  \/ DispatchSignal
  \/ DispatchOrder
  \/ DispatchFill
  \/ DrainEmpty
  \/ OutputRow

Spec == Init /\ [][Next]_vars

AfterRaiseCaught == "drain"

\* Where control goes when a collaborator call raises: the try of the second
\* loop covers self.events.get and handles queue.Empty only, and neither
\* _run_backtest nor simulate_trading has another handler, so the exception
\* leaves simulate_trading
AfterRaise == "failed"

\* _run_backtest, second `while True`: one iteration in which the j-th
\* collaborator call of the branch raises
DispatchFails ==
  /\ pc = "drain"
  /\ events # <<>>
  /\ LET got == QueueGet(events)
         event == got.event
         fns == HandlerCalls(event.type)
     IN \E j \in 1..Len(fns) :
          LET st == InvokeAll(SubSeq(fns, 1, j - 1),
                              [Cur EXCEPT !.events = got.rest], event)
              entry == [fn |-> fns[j], ev |-> event.id, raised |-> TRUE,
                        call |-> calls, cfg |-> sweep_i, run |-> run]
          IN /\ signals' = IF event.type = "SIGNAL" THEN signals + 1
                                                    ELSE signals
             /\ orders' = IF event.type = "ORDER" THEN orders + 1 ELSE orders
             /\ fills' = IF event.type = "FILL" THEN fills + 1 ELSE fills
             /\ Store([st EXCEPT !.call_log = Append(@, entry)])
             /\ dispatched' = Append(dispatched, event.id)
             /\ pc' = AfterRaise
  /\ UNCHANGED <<strat_lookback, strat_z_entry, strat_z_exit,
                 strat_params_list, symbol_list, calendar, sigPlan, ordPlan,
                 calls, sweep_i, out, i, run, runs, artifact, native,
                 result>>

---------------------------------------------------------------------------
(* The event classes and the commission function, called directly.  Money  *)
(* is in thousandths of a dollar: 1.3 is 1300, 0.013 a share is 13.         *)

MaxQty == 1001
MaxNeg == 2

MinCommission == 1300
RateSmall == 13
RateLarge == 8
TierLimit == 500

Quantities == (0 - MaxNeg)..MaxQty

\* An explicit commission argument, or None
CommissionArgs == {None, Some(0), Some(2500)}

Max(a, b) == IF a >= b THEN a ELSE b

calculate_ib_commission_strict(quantity) ==
  IF quantity < TierLimit
  THEN Max(MinCommission, RateSmall * quantity)
  ELSE Max(MinCommission, RateLarge * quantity)

calculate_ib_commission_swapped(quantity) ==
  IF quantity <= TierLimit
  THEN Max(MinCommission, RateLarge * quantity)
  ELSE Max(MinCommission, RateSmall * quantity)

\* calculate_ib_commission, on an object whose quantity is `quantity`
calculate_ib_commission(quantity) ==
  IF quantity <= TierLimit
  THEN Max(MinCommission, RateSmall * quantity)
  ELSE Max(MinCommission, RateLarge * quantity)

\* The attributes of class FillEvent: its body ends with __init__;
\* calculate_ib_commission is defined after it at module level
FillEventAttributes == {"__init__"}

\* OrderEvent.__init__: stores its arguments
OrderEvent(quantity) ==
  [raised |-> "no", event |-> [type |-> "ORDER", quantity |-> quantity],
   commission_calls |-> 0]

\* FillEvent.__init__: stores its arguments; with commission None it looks up
\* self.calculate_ib_commission and calls it
FillEvent(quantity, commission) ==
  IF commission = None
  THEN IF "calculate_ib_commission" \in FillEventAttributes
       THEN [raised |-> "no",
             event |-> [type |-> "FILL", quantity |-> quantity,
                        commission |-> calculate_ib_commission(quantity)],
             commission_calls |-> 1]
       ELSE [raised |-> "AttributeError", commission_calls |-> 0]
  ELSE [raised |-> "no",
        event |-> [type |-> "FILL", quantity |-> quantity,
                   commission |-> commission[1]],
        commission_calls |-> 0]

Idle == result.op = "none" /\ pc = "constructed"

BacktestVars ==
  <<strat_lookback, strat_z_entry, strat_z_exit, strat_params_list,
    symbol_list, calendar, sigPlan, ordPlan, pc, calls, sweep_i, out, i,
    events, signals, orders, fills, symbol_data, latest_symbol_data,
    continue_backtest, strategy, portfolio, run, pushed, dispatched, call_log,
    runs, artifact>>

\* calculate_ib_commission is applied to an object carrying a quantity
CallCommission ==
  /\ Idle
  /\ \E q \in Quantities :
       result' = [op |-> "calculate_ib_commission", quantity |-> q,
                  value |-> calculate_ib_commission(q)]
  /\ UNCHANGED <<BacktestVars, native>>

\* calculate_ib_commission is applied to two objects, the second one with
\* the larger quantity
CallCommissionTwice ==
  /\ Idle
  /\ \E q1 \in 0..MaxQty : \E q2 \in q1..MaxQty :
       result' = [op |-> "calculate_ib_commission twice",
                  q1 |-> q1, v1 |-> calculate_ib_commission(q1),
                  q2 |-> q2, v2 |-> calculate_ib_commission(q2)]
  /\ UNCHANGED <<BacktestVars, native>>

\* OrderEvent(symbol, order_type, quantity, direction) is constructed
NewOrderEvent ==
  /\ Idle
  /\ \E q \in Quantities :
       result' = [op |-> "OrderEvent", quantity |-> q, commission |-> None,
                  outcome |-> OrderEvent(q)]
  /\ UNCHANGED <<BacktestVars, native>>

\* FillEvent(timeindex, symbol, exchange, quantity, direction, fill_cost
\* [, commission]) is constructed
NewFillEvent ==
  /\ Idle
  /\ \E q \in Quantities : \E c \in CommissionArgs :
       result' = [op |-> "FillEvent", quantity |-> q, commission |-> c,
                  outcome |-> FillEvent(q, c)]
  /\ UNCHANGED <<BacktestVars, native>>

\* No backtest is running: one symbol, no configuration
EventInit ==
  /\ Init
  /\ strat_params_list = <<>>
  /\ Len(symbol_list) = 1
  /\ calendar = <<>>
  /\ ordPlan = 0

EventNext ==
  \/ CallCommission
  \/ CallCommissionTwice
  \/ NewOrderEvent
  \/ NewFillEvent

EventSpec == EventInit /\ [][EventNext]_vars

---------------------------------------------------------------------------
(* HistoricCSVDataHandler, constructed and queried directly.  A row of a   *)
(* symbol's CSV file is named by its timestamp; a bar is the pair          *)
(* <<index label, row>> that iterrows() yields, the row 0 being the        *)
(* all-NaN row reindex makes where pad finds nothing to carry forward.     *)

MaxT == 3
MaxN == 3

RECURSIVE sorted_index(_)
sorted_index(S) ==
  IF S = {} THEN <<>>
  ELSE LET m == CHOOSE x \in S : \A y \in S : x <= y
       IN <<m>> \o sorted_index(S \ {m})

\* The index a CSV file can have: ascending timestamps
NativeIndexes == {sorted_index(S) : S \in SUBSET (1..MaxT)}

\* A symbol no feed is configured with
UnknownSymbols == {"IBM"}

Put(f, k, v) == [x \in DOMAIN f \cup {k} |-> IF x = k THEN v ELSE f[x]]

\* pd.io.parsers.read_csv(...): the DataFrame of symbol s
read_csv(s) ==
  [kind |-> "frame",
   rows |-> [k \in 1..Len(native[s]) |-> <<native[s][k], native[s][k]>>]]

\* Index.union: a new index, the receiver is not changed
IndexUnion(a, b) == sorted_index(Range(a) \cup Range(b))

\* method='pad': the row of the last label at or before t
Pad(rows, t) ==
  LET prior == {k \in 1..Len(rows) : rows[k][1] <= t}
  IN IF prior = {} THEN 0
     ELSE rows[CHOOSE k \in prior : \A j \in prior : j <= k][2]

\* DataFrame.reindex(index=comb_index, method='pad').iterrows()
reindex(rows, index) ==
  [k \in 1..Len(index) |-> <<index[k], Pad(rows, index[k])>>]

\* The inner `for s in self.symbol_list` of _open_convert_csv_files, from
\* symbol j on: it stands inside the body of the loading loop
RECURSIVE ReindexLoop(_, _)
ReindexLoop(fs, j) ==
  IF fs.raised # "no" \/ j > Len(symbol_list) THEN fs
  ELSE LET s == symbol_list[j]
       IN IF s \notin DOMAIN fs.symbol_data
          THEN [fs EXCEPT !.raised = "KeyError"]
          ELSE IF fs.symbol_data[s].kind # "frame"
          THEN [fs EXCEPT !.raised = "AttributeError"]
          ELSE ReindexLoop(
                 [fs EXCEPT !.symbol_data[s] =
                    [kind |-> "rows",
                     rows |-> reindex(@.rows, fs.comb_index[1])]],
                 j + 1)

\* _open_convert_csv_files: the loading loop from symbol k on.  The result of
\* comb_index.union(...) is not assigned, so comb_index stays the first index.
RECURSIVE open_convert_csv_files(_, _)
open_convert_csv_files(fs, k) ==
  IF fs.raised # "no" \/ k > Len(symbol_list) THEN fs
  ELSE LET s == symbol_list[k]
           frame == read_csv(s)
           index == [j \in 1..Len(frame.rows) |-> frame.rows[j][1]]
           fs1 == [fs EXCEPT
                     !.symbol_data = Put(@, s, frame),
                     !.comb_index = IF @ = None THEN Some(index) ELSE @,
                     !.latest_symbol_data = Put(@, s, <<>>)]
       IN open_convert_csv_files(ReindexLoop(fs1, 1), k + 1)

\* list[k] of Python for k < 0
PyItem(list, k) ==
  IF Len(list) + k < 0 THEN [raised |-> "IndexError"]
  ELSE [raised |-> "no", value |-> list[Len(list) + k + 1]]

\* list[start:] of Python
PySliceFrom(list, start) ==
  LET from == IF start < 0
              THEN (IF Len(list) + start < 0 THEN 0 ELSE Len(list) + start)
              ELSE (IF start > Len(list) THEN Len(list) ELSE start)
  IN SubSeq(list, from + 1, Len(list))

get_latest_bar_oldest(lsd, symbol) ==
  IF symbol \notin DOMAIN lsd THEN [raised |-> "KeyError"]
  ELSE IF lsd[symbol] = <<>> THEN [raised |-> "IndexError"]
  ELSE [raised |-> "no", value |-> lsd[symbol][1]]

\* get_latest_bar: bars_list[-1]
get_latest_bar(lsd, symbol) ==
  IF symbol \notin DOMAIN lsd THEN [raised |-> "KeyError"]
  ELSE PyItem(lsd[symbol], 0 - 1)

\* get_latest_bars: bars_list[-N:]
get_latest_bars(lsd, symbol, N) ==
  IF symbol \notin DOMAIN lsd THEN [raised |-> "KeyError"]
  ELSE [raised |-> "no", value |-> PySliceFrom(lsd[symbol], 0 - N)]

\* get_latest_bar_datetime: bars_list[-1][0]
get_latest_bar_datetime(lsd, symbol) ==
  LET got == get_latest_bar(lsd, symbol)
  IN IF got.raised # "no" THEN got
     ELSE [raised |-> "no", value |-> got.value[1]]

\* get_latest_bar_value: getattr(bars_list[-1][1], val_type)
get_latest_bar_value(lsd, symbol) ==
  LET got == get_latest_bar(lsd, symbol)
  IN IF got.raised # "no" THEN got
     ELSE [raised |-> "no", value |-> got.value[2]]

\* get_latest_bars_values: the val_type of each of get_latest_bars(symbol, N)
get_latest_bars_values(lsd, symbol, N) ==
  LET got == get_latest_bars(lsd, symbol, N)
  IN IF got.raised # "no" THEN got
     ELSE [raised |-> "no",
           value |-> [k \in 1..Len(got.value) |-> got.value[k][2]]]

QuerySymbols == Range(symbol_list) \cup UnknownSymbols

FeedFixed ==
  <<strat_lookback, strat_z_entry, strat_z_exit, strat_params_list,
    symbol_list, sigPlan, ordPlan, calls, sweep_i, out, signals, orders,
    fills, strategy, portfolio, run, dispatched, call_log, runs, artifact,
    native>>

\* HistoricCSVDataHandler(events, csv_dir, symbol_list)
NewDataHandler ==
  /\ pc = "feed_new"
  /\ LET fs == open_convert_csv_files(
                 [symbol_data |-> <<>>, latest_symbol_data |-> <<>>,
                  comb_index |-> None, raised |-> "no"], 1)
     IN /\ symbol_data' =
             [s \in DOMAIN fs.symbol_data |-> fs.symbol_data[s].rows]
        /\ latest_symbol_data' = fs.latest_symbol_data
        /\ calendar' = IF fs.comb_index = None THEN <<>> ELSE fs.comb_index[1]
        /\ pc' = IF fs.raised = "no" THEN "feed_ready" ELSE "feed_failed"
  /\ continue_backtest' = TRUE
  /\ UNCHANGED <<FeedFixed, i, events, pushed, result>>

\* data_handler.update_bars(), called up to once more after the call that
\* finds the rows used up
FeedUpdateBars ==
  /\ pc = "feed_ready"
  /\ result.op = "none"
  /\ i <= Len(calendar) + 1
  /\ i' = i + 1
  /\ Store(update_bars(Cur, 1, i + 1, run))
  /\ UNCHANGED <<FeedFixed, calendar, pc, result>>

Query(op, symbol, N, outcome) ==
  /\ pc = "feed_ready"
  /\ result.op = "none"
  /\ result' = [op |-> op, symbol |-> symbol, N |-> N, outcome |-> outcome]
  /\ UNCHANGED <<FeedFixed, calendar, pc, i, events, pushed, symbol_data,
                 latest_symbol_data, continue_backtest>>

GetLatestBar ==
  \E s \in QuerySymbols :
    Query("get_latest_bar", s, 1, get_latest_bar(latest_symbol_data, s))

GetLatestBars ==
  \E s \in QuerySymbols : \E N \in 0..MaxN :
    Query("get_latest_bars", s, N, get_latest_bars(latest_symbol_data, s, N))

GetLatestBarDatetime ==
  \E s \in QuerySymbols :
    Query("get_latest_bar_datetime", s, 1,
          get_latest_bar_datetime(latest_symbol_data, s))

GetLatestBarValue ==
  \E s \in QuerySymbols :
    Query("get_latest_bar_value", s, 1,
          get_latest_bar_value(latest_symbol_data, s))

GetLatestBarsValues ==
  \E s \in QuerySymbols : \E N \in 0..MaxN :
    Query("get_latest_bars_values", s, N,
          get_latest_bars_values(latest_symbol_data, s, N))

\* Before HistoricCSVDataHandler(...) is called: the CSV files exist, the
\* queue is empty
FeedInit ==
  /\ strat_lookback = Prefix(StratLookback, 1)
  /\ strat_z_entry = Prefix(StratZEntry, 1)
  /\ strat_z_exit = Prefix(StratZExit, 1)
  /\ strat_params_list =
       StratParamsDictList(strat_lookback, strat_z_entry, strat_z_exit)
  /\ \E n \in 1..MaxSym : symbol_list = Prefix(SymbolNames, n)
  /\ native \in [Range(symbol_list) -> NativeIndexes]
  /\ calendar = <<>>
  /\ sigPlan = [w \in Range(strat_lookback) |-> 0]
  /\ ordPlan = 0
  /\ pc = "feed_new"
  /\ calls = 0
  /\ sweep_i = 0
  /\ out = <<>>
  /\ i = 0
  /\ events = <<>>
  /\ signals = 0
  /\ orders = 0
  /\ fills = 0
  /\ symbol_data = <<>>
  /\ latest_symbol_data = <<>>
  /\ continue_backtest = TRUE
  /\ strategy = [ols_window |-> 0, zscore_high |-> 0, zscore_low |-> 0]
  /\ portfolio = [timeindex |-> 0, fills |-> 0]
  /\ run = 0
  /\ pushed = <<>>
  /\ dispatched = <<>>
  /\ call_log = <<>>
  /\ runs = <<>>
  /\ artifact = <<>>
  /\ result = [op |-> "none"]

FeedNext ==
  \/ NewDataHandler
  \/ FeedUpdateBars
  \/ GetLatestBar
  \/ GetLatestBars
  \/ GetLatestBarDatetime
  \/ GetLatestBarValue
  \/ GetLatestBarsValues

FeedSpec == FeedInit /\ [][FeedNext]_vars

\* A step of _run_backtest
RunStep ==
  \/ Advance
  \/ DispatchMarket
  \/ DispatchSignal
  \/ DispatchOrder
  \/ DispatchFill
  \/ DrainEmpty

\* The interpreter keeps executing a call of _run_backtest once it is entered
FairSpec == Spec /\ WF_vars(RunStep)

\* The program with collaborators whose calls may raise
FailNext ==
  \/ Next
  \/ DispatchFails

FailSpec == Init /\ [][FailNext]_vars

---------------------------------------------------------------------------
(* History helpers *)

Ids == 1..Len(pushed)

IsDispatched(id) == \E k \in 1..Len(dispatched) : dispatched[k] = id

\* Position of an event in the dispatch order
Pos(id) == CHOOSE k \in 1..Len(dispatched) : dispatched[k] = id

\* a is an ancestor of d in the causal tree
RECURSIVE Causes(_, _)
Causes(a, d) ==
  IF d = 0 THEN FALSE
  ELSE pushed[d].parent = a \/ Causes(a, pushed[d].parent)

\* Pushed by the same processing step
Siblings(a, b) ==
  /\ pushed[a].parent = pushed[b].parent
  /\ pushed[a].tick = pushed[b].tick
  /\ pushed[a].run = pushed[b].run

\* The feed-pushed Market event an event descends from
RECURSIVE Root(_)
Root(d) == IF pushed[d].parent = 0 THEN d ELSE Root(pushed[d].parent)

\* In the same tick: in the cascade of the same Market event
SameTick(a, b) ==
  /\ pushed[a].tick = pushed[b].tick
  /\ pushed[a].run = pushed[b].run
  /\ Root(a) = Root(b)

NumDispatched(type, r) ==
  Cardinality({k \in 1..Len(dispatched) :
                 /\ pushed[dispatched[k]].type = type
                 /\ pushed[dispatched[k]].run = r})

LogIndexes(fn, id) ==
  {k \in 1..Len(call_log) : call_log[k].fn = fn /\ call_log[k].ev = id}

InRun == pc \in {"advance", "drain", "ran"}

Terminal == pc \in {"raised", "returned"}

---------------------------------------------------------------------------
(* Claims *)

\* C1: the event queue is empty at the start of every advance phase, that is
\* whenever _run_backtest is about to call update_bars.
C1_CascadeContainment ==
  (pc = "advance" /\ continue_backtest) => events = <<>>

\* C2: an update_bars call that advances the feed enqueues exactly one Market
\* event whatever the number of symbols, and one that exhausts it enqueues none.
C2_OneMarketPerAdvance ==
  [][(pc = "advance" /\ continue_backtest) =>
       Len(pushed') = Len(pushed) + (IF continue_backtest' THEN 1 ELSE 0)]_vars

\* C3: a run over a calendar of length L terminates, after exactly L
\* successful advances: every symbol's L bars have been emitted, the L+1-th
\* update_bars call reports exhaustion and the next loop turn breaks.
C3_Termination ==
  /\ (pc = "advance") ~> (pc = "ran")
  /\ [](pc = "ran" =>
          /\ i = Len(calendar) + 2
          /\ \A s \in Range(symbol_list) : latest_symbol_data[s] = calendar)

C3_Witness ==
  /\ pc = "ran"
  /\ Len(calendar) >= 2
  /\ Len(symbol_list) >= 2
  /\ \A s \in Range(symbol_list) : Len(latest_symbol_data[s]) >= 2

\* C4 as stated: for e1 pushed before e2 in the same tick (taken in the
\* cascade of one Market event), not siblings, e1 and everything e1 causes
\* are dispatched before e2's dispatch starts.
C4_DepthFirst ==
  \A e1 \in Ids : \A e2 \in Ids :
    (/\ e1 < e2
     /\ SameTick(e1, e2)
     /\ ~Siblings(e1, e2)
     /\ ~Causes(e1, e2)
     /\ IsDispatched(e2))
    => \A d \in {e1} \cup {x \in Ids : Causes(e1, x)} :
         IsDispatched(d) /\ Pos(d) < Pos(e2)

\* C4 amended: events are dispatched in exactly the order they were pushed;
\* e1 pushed before e2 is dispatched before e2, and what e1 causes is
\* dispatched after every event pushed before it.
C4_FifoDispatch ==
  \A k \in 1..Len(dispatched) : dispatched[k] = k

C4_Witness ==
  \E e1 \in Ids : \E e2 \in Ids : \E d \in Ids :
    /\ e1 < e2
    /\ SameTick(e1, e2)
    /\ ~Siblings(e1, e2)
    /\ ~Causes(e1, e2)
    /\ Causes(e1, d)
    /\ IsDispatched(e1) /\ IsDispatched(e2) /\ IsDispatched(d)
    /\ Pos(e1) < Pos(e2)
    /\ Pos(e2) < Pos(d)

\* C5: every dispatched Market event has exactly one calculate_signals call
\* and exactly one update_timeindex call, the strategy's first, and neither
\* call is ever made with a Signal, Order or Fill event.
C5_MarketHandlers ==
  /\ \A k \in 1..Len(dispatched) :
       pushed[dispatched[k]].type = "MARKET" =>
         LET cs == LogIndexes("calculate_signals", dispatched[k])
             ut == LogIndexes("update_timeindex", dispatched[k])
         IN /\ Cardinality(cs) = 1
            /\ Cardinality(ut) = 1
            /\ \A a \in cs : \A b \in ut : a < b
  /\ \A k \in 1..Len(call_log) :
       call_log[k].fn \in {"calculate_signals", "update_timeindex"} =>
         /\ pushed[call_log[k].ev].type = "MARKET"
         /\ IsDispatched(call_log[k].ev)

C5_Witness ==
  /\ \E k \in 1..Len(dispatched) : pushed[dispatched[k]].type = "MARKET"
  /\ \E k \in 1..Len(dispatched) : pushed[dispatched[k]].type = "SIGNAL"
  /\ \E k \in 1..Len(dispatched) : pushed[dispatched[k]].type = "FILL"
  /\ Len(call_log) >= 4

\* C6: during a run the three counters equal the numbers of Signal, Order and
\* Fill events dispatched so far in that run.
C6_CountersMatchRun ==
  InRun =>
    /\ signals = NumDispatched("SIGNAL", run)
    /\ orders = NumDispatched("ORDER", run)
    /\ fills = NumDispatched("FILL", run)

\* C7: when simulate_trading ends, the output holds one row per configuration
\* in configuration order, the k-th row made of the k-th configuration's
\* parameters and the statistics of that configuration's run.
C7_OneRowPerConfig ==
  Terminal =>
    /\ Len(out) = Len(strat_params_list)
    /\ \A k \in 1..Len(out) :
         \E r \in 1..Len(runs) :
           /\ runs[r].params = strat_params_list[k]
           /\ out[k] = Row(strat_params_list[k], runs[r].stats)

\* C8: when a configuration's dispatch loop begins, the counters are zero and
\* the queue is empty.
C8_FreshRunContext ==
  (pc = "advance" /\ i = 0) =>
    /\ signals = 0
    /\ orders = 0
    /\ fills = 0
    /\ events = <<>>

\* C9: two runs of the same configuration end with the same summary
\* statistics and the same counters.
C9_Deterministic ==
  \A a \in 1..Len(runs) : \A b \in 1..Len(runs) :
    runs[a].params = runs[b].params => runs[a] = runs[b]

\* The configuration at position k of the nested iteration over the declared
\* ranges, first range slowest
NestedConfig(k) ==
  LET n2 == Len(strat_z_entry)
      n3 == Len(strat_z_exit)
  IN [ols_window |-> strat_lookback[((k - 1) \div (n2 * n3)) + 1],
      zscore_high |-> strat_z_entry[(((k - 1) \div n3) % n2) + 1],
      zscore_low |-> strat_z_exit[((k - 1) % n3) + 1]]

GridSize == Len(strat_lookback) * Len(strat_z_entry) * Len(strat_z_exit)

\* C10: the configurations are the cartesian product of the ranges in nested
\* order, first-declared slowest, and the finished sweep has written one row
\* per combination (27 for 3x3x3), in that order.
C10_NestedProductRows ==
  /\ Len(strat_params_list) = GridSize
  /\ \A k \in 1..Len(strat_params_list) : strat_params_list[k] = NestedConfig(k)
  /\ Terminal =>
       /\ Len(out) = GridSize
       /\ \A k \in 1..Len(out) :
            SubSeq(out[k], 1, 3) = <<NestedConfig(k).ols_window,
                                     NestedConfig(k).zscore_high,
                                     NestedConfig(k).zscore_low>>

\* C11: the output file holds the row of every configuration whose run has
\* completed: the rows of configurations 1..k-1 while configuration k runs,
\* and the row of configuration k as well once the sweep has moved past its
\* run.
C11_DurableRows ==
  /\ pc \in {"advance", "drain", "ran"} => Len(artifact) = sweep_i - 1
  /\ pc = "raised" => Len(artifact) = sweep_i
  /\ pc = "returned" => Len(artifact) = Len(strat_params_list)
  /\ \A k \in 1..Len(artifact) :
       SubSeq(artifact[k], 1, 3) = <<strat_params_list[k].ols_window,
                                     strat_params_list[k].zscore_high,
                                     strat_params_list[k].zscore_low>>

\* Collaborator calls that raised during the current simulate_trading call
RaisedNow ==
  {k \in 1..Len(call_log) :
     "raised" \in DOMAIN call_log[k] /\ call_log[k].call = calls}

\* C12: once a collaborator call has raised, simulate_trading is left at once:
\* that call is the last one made, its event the last one dispatched, no row
\* has been written for its configuration and no other configuration or run
\* has been started.
C12_FailFast ==
  \A k \in RaisedNow :
    /\ pc = "failed"
    /\ k = Len(call_log)
    /\ dispatched[Len(dispatched)] = call_log[k].ev
    /\ sweep_i = call_log[k].cfg
    /\ run = call_log[k].run
    /\ Len(out) = call_log[k].cfg - 1
    /\ artifact = <<>>

C12_Witness ==
  /\ RaisedNow # {}
  /\ pc = "failed"
  /\ events # <<>>
  /\ Len(dispatched) >= 2

\* C13: in thousandths, commission(q) is max(1300, 13 q) for q in 1..500 and
\* max(1300, 8 q) for q > 500, and is at least 1300 for every q >= 0;
\* commission(100) = 1300 and commission(1000) = 8000.
C13_CommissionArithmetic ==
  result.op = "calculate_ib_commission" =>
    LET q == result.quantity
        v == result.value
    IN /\ (q >= 1 /\ q <= 500) =>
            v = (IF 13 * q > 1300 THEN 13 * q ELSE 1300)
       /\ q > 500 => v = (IF 8 * q > 1300 THEN 8 * q ELSE 1300)
       /\ q >= 0 => v >= 1300
       /\ q = 100 => v = 1300
       /\ q = 1000 => v = 8000

C13_Witness ==
  /\ result.op = "calculate_ib_commission"
  /\ result.quantity = 500
  /\ result.value = 6500

\* C14: a FillEvent built with an explicit commission c carries c and the
\* commission function is not called; built without one, construction
\* succeeds and it carries commission(quantity).
C14_FillCommission ==
  result.op = "FillEvent" =>
    /\ result.outcome.raised = "no"
    /\ IF result.commission = None
       THEN /\ result.outcome.event.commission =
                 (IF result.quantity <= 500
                  THEN Max(1300, 13 * result.quantity)
                  ELSE Max(1300, 8 * result.quantity))
            /\ result.outcome.commission_calls = 1
       ELSE /\ result.outcome.event.commission = result.commission[1]
            /\ result.outcome.commission_calls = 0

\* C15: constructing an OrderEvent or a FillEvent with a negative quantity
\* fails with InvalidQuantity and produces no event.
C15_InvalidQuantity ==
  (result.op \in {"OrderEvent", "FillEvent"} /\ result.quantity < 0) =>
    result.outcome.raised = "InvalidQuantity"

\* The last min(n, h) elements of a buffer of h bars
LastBars(buffer, n) ==
  LET h == Len(buffer)
      m == IF n < h THEN n ELSE h
  IN SubSeq(buffer, h - m + 1, h)

\* C16: for a configured symbol with h bars in its buffer and any n >= 0,
\* get_latest_bars(symbol, n) does not fail and returns the last min(n, h)
\* bars in order; it fails only for a symbol that is not configured.
C16_LatestBars ==
  result.op = "get_latest_bars" =>
    IF result.symbol \in Range(symbol_list)
    THEN /\ result.outcome.raised = "no"
         /\ result.outcome.value =
              LastBars(latest_symbol_data[result.symbol], result.N)
    ELSE result.outcome.raised # "no"

C17_Outcome ==
  result.op \in {"get_latest_bar", "get_latest_bar_datetime",
                 "get_latest_bar_value"} =>
    IF result.symbol \notin Range(symbol_list)
    THEN result.outcome.raised = "KeyError"
    ELSE LET buffer == latest_symbol_data[result.symbol]
             last == buffer[Len(buffer)]
         IN IF buffer = <<>>
            THEN result.outcome.raised = "IndexError"
            ELSE /\ result.outcome.raised = "no"
                 /\ result.outcome.value =
                      (CASE result.op = "get_latest_bar" -> last
                         [] result.op = "get_latest_bar_datetime" -> last[1]
                         [] result.op = "get_latest_bar_value" -> last[2])

C17_QueryKeepsFeed ==
  [][result' # result =>
       UNCHANGED <<symbol_data, latest_symbol_data, continue_backtest,
                   calendar, i, events>>]_vars

\* C17: get_latest_bar, get_latest_bar_datetime and get_latest_bar_value fail
\* with the unknown-symbol error (KeyError) for a symbol that is not
\* configured, with the no-bar-yet error (IndexError) for a configured symbol
\* whose buffer is empty, and otherwise return the bar appended last; a query,
\* failed or not, leaves the buffers, the row iterators and the flag unchanged.
C17_LatestBar == []C17_Outcome /\ C17_QueryKeepsFeed

C17_Witness ==
  /\ result.op = "get_latest_bar"
  /\ result.outcome.raised = "no"
  /\ Len(latest_symbol_data[result.symbol]) >= 2

\* The Calendar: the sorted union of the native timestamps of all symbols
UnionCalendar ==
  sorted_index(UNION {Range(native[s]) : s \in Range(symbol_list)})

\* The bars of symbol s, delivered and still to come
Series(s) ==
  IF s \in DOMAIN symbol_data /\ s \in DOMAIN latest_symbol_data
  THEN latest_symbol_data[s] \o symbol_data[s]
  ELSE <<>>

\* C18: the feed is constructed, its calendar is the sorted union of the
\* native timestamps of all configured symbols, and every symbol has exactly
\* one bar at every calendar timestamp.
C18_Calendar ==
  pc # "feed_new" =>
    /\ pc = "feed_ready"
    /\ calendar = UnionCalendar
    /\ \A s \in Range(symbol_list) :
         [k \in 1..Len(Series(s)) |-> Series(s)[k][1]] = calendar

\* The row of s observed last at or before t
MostRecentNative(s, t) ==
  LET prior == {x \in Range(native[s]) : x <= t}
  IN CHOOSE x \in prior : \A y \in prior : y <= x

\* C19: for every symbol s and every Calendar timestamp t at or after the
\* first native timestamp of s, the bar the feed delivers for s at t carries
\* the most recent native observation of s at or before t.
C19_ForwardFill ==
  pc # "feed_new" =>
    \A s \in Range(symbol_list) : \A t \in Range(UnionCalendar) :
      (native[s] # <<>> /\ t >= native[s][1]) =>
        \E k \in 1..Len(Series(s)) :
          Series(s)[k] = <<t, MostRecentNative(s, t)>>

\* The Fill events pushed while Order event o was handled
FillsOf(o) ==
  {f \in Ids : pushed[f].type = "FILL" /\ pushed[f].parent = o}

\* C20: with an ExecutionHandler that honours its contract, every dispatched
\* Order event has exactly one Fill event, of the same tick and run, which is
\* dispatched after it and before the event loop is left; whenever the loop
\* is not handling events the fill counter equals the order counter.
C20_OneFillPerOrder ==
  /\ \A o \in Ids :
       (pushed[o].type = "ORDER" /\ IsDispatched(o)) =>
         /\ Cardinality(FillsOf(o)) = 1
         /\ \A f \in FillsOf(o) :
              /\ SameTick(o, f)
              /\ IsDispatched(f) => Pos(f) > Pos(o)
              /\ pc # "drain" => IsDispatched(f)
  /\ pc # "drain" => fills = orders

C20_Witness ==
  /\ pc = "ran"
  /\ orders >= 2
  /\ \E o \in Ids : \E f \in FillsOf(o) :
       /\ IsDispatched(o)
       /\ IsDispatched(f)
       /\ Pos(f) > Pos(o) + 1

\* _run_backtest has returned
Done == pc \in {"ran", "raised", "returned"}

\* The positions at which event id was dispatched
Dispatches(id) == {k \in 1..Len(dispatched) : dispatched[k] = id}

\* C21: when _run_backtest has returned the queue is empty and every event
\* pushed so far, by the feed or by a collaborator, has been dispatched
\* exactly once, in the order of the pushes; an event waiting in the queue
\* always belongs to the run in progress.
C21_AllDispatchedOnce ==
  /\ Done =>
       /\ events = <<>>
       /\ \A id \in Ids : Cardinality(Dispatches(id)) = 1
       /\ \A a \in Ids : \A b \in Ids :
            a < b => \A ka \in Dispatches(a) : \A kb \in Dispatches(b) : ka < kb
  /\ \A k \in 1..Len(events) : events[k].run = run

C21_Witness ==
  /\ pc = "ran"
  /\ run = 2
  /\ events = <<>>
  /\ \E a \in Ids : \E b \in Ids :
       /\ pushed[a].run = 1
       /\ pushed[b].run = 2
       /\ pushed[b].parent # 0
       /\ Dispatches(b) # {}

\* The number of update_bars calls so far that found a row
Successful == IF i < Len(calendar) THEN i ELSE Len(calendar)

\* The bar of symbol s at calendar position j
BarAt(s, j) ==
  <<calendar[j],
    IF \E x \in Range(native[s]) : x <= calendar[j]
    THEN MostRecentNative(s, calendar[j])
    ELSE 0>>

C22_Buffers ==
  pc = "feed_ready" =>
    /\ \A s \in Range(symbol_list) :
         /\ Len(latest_symbol_data[s]) = Successful
         /\ \A j \in 1..Successful : latest_symbol_data[s][j] = BarAt(s, j)
         /\ \A j \in 1..(Successful - 1) :
              latest_symbol_data[s][j][1] < latest_symbol_data[s][j + 1][1]
    /\ continue_backtest = (i <= Len(calendar))

C22_AppendOnly ==
  [][pc = "feed_ready" =>
       /\ \A s \in Range(symbol_list) :
            /\ Len(latest_symbol_data'[s]) >= Len(latest_symbol_data[s])
            /\ SubSeq(latest_symbol_data'[s], 1, Len(latest_symbol_data[s]))
                 = latest_symbol_data[s]
            /\ (i' = i + 1 /\ i >= Len(calendar)) =>
                 latest_symbol_data'[s] = latest_symbol_data[s]
       /\ continue_backtest = FALSE => continue_backtest' = FALSE]_vars

\* C22: after k update_bars calls that found a row, the buffer of every
\* configured symbol holds exactly the symbol's bars at calendar positions
\* 1..k, in ascending order; update_bars only appends; the call that finds the
\* rows used up appends nothing and sets continue_backtest to false, and no
\* later call sets it to true.
C22_FeedHistory == []C22_Buffers /\ C22_AppendOnly

C22_Witness ==
  /\ pc = "feed_ready"
  /\ Len(calendar) >= 2
  /\ i = Len(calendar) + 2
  /\ continue_backtest = FALSE
  /\ \A s \in Range(symbol_list) : Len(latest_symbol_data[s]) = Len(calendar)

\* C23: for all quantities 0 <= q1 <= q2, commission(q1) <= commission(q2),
\* also when q1 <= 500 < q2.
C23_Monotone ==
  result.op = "calculate_ib_commission twice" => result.v1 <= result.v2

\* C23 amended: the commission is monotone within each tier (q2 <= 500, or
\* q1 > 500); for q1 <= 500 < q2 it is commission(q1) <= commission(q2)
\* exactly when 13 q1 <= 8 q2, so it drops at the boundary.
C23_MonotoneWithinTier ==
  result.op = "calculate_ib_commission twice" =>
    /\ (result.q2 <= 500 \/ result.q1 > 500) => result.v1 <= result.v2
    /\ (result.q1 <= 500 /\ result.q2 > 500) =>
         (result.v1 <= result.v2 <=> 13 * result.q1 <= 8 * result.q2)

C23_Witness ==
  /\ result.op = "calculate_ib_commission twice"
  /\ result.q1 = 500
  /\ result.q2 = 501
  /\ result.v1 = 6500
  /\ result.v2 = 4008

====
